---- MODULE Spec2Model ----
(***************************************************************************)
(* Batch figure extraction of alphascent:                                  *)
(*   pipeline/figure_extraction/extract_figures_batch.py  (main,           *)
(*       collect, process_paper, the failed-extractions ledger)            *)
(*   pipeline/figure_extraction/extract_figures.py  (download_pdf and its  *)
(*       module-level rate limiter, select_figures_simple)                 *)
(*   pipeline/figure_extraction/process_figures.py  (upload of the full    *)
(*       and thumbnail objects)                                            *)
(*   pipeline/d1_client.py  (catalog query and upsert)                     *)
(*                                                                         *)
(* One run of main is modelled.  A document of the worklist moves through  *)
(* process_paper one external effect at a time, so that a pool worker can  *)
(* be terminated between any two of them.  Processes 1..workers are the    *)
(* pool's worker processes; with workers <= 1 process 1 is the main        *)
(* process itself, which then calls process_paper directly.                *)
(*                                                                         *)
(* The clock: time.time() is seconds since the epoch, so the first reading *)
(* of every process is at least PDF_MIN_INTERVAL after _last_pdf_download  *)
(* = 0; now starts at that value.  No step of the run reads the clock but  *)
(* download_pdf, and the clock moves when a sleep of download_pdf ends.    *)
(***************************************************************************)
EXTENDS Integers, Sequences, FiniteSets, TLC

\* ------------------------------------------------------------------ bounds
MaxDocs == 2        \* document identifiers known to the catalog
MaxCount == 2       \* largest value of the max_count argument
MaxFigures == 2     \* longest figure list extract_figures returns

\* config.MAX_WORKERS, the default of main's workers argument
MAX_WORKERS == 2

\* PDF_MIN_INTERVAL = config.ARXIV_RATE_LIMIT = 3.5 s; the clock counts half seconds
PDF_MIN_INTERVAL == 7
\* config.FIGURE_MIN_WIDTH, config.FIGURE_MIN_HEIGHT (pixels)
FIGURE_MIN_WIDTH == 400
FIGURE_MIN_HEIGHT == 200

Docs == 1..MaxDocs
Procs == 1..MAX_WORKERS
\* Python's None for an optional value: the empty tuple, a value <<v>> otherwise
None == <<>>
Some(v) == <<v>>
Kinds == {"teaser", "architecture"}

VARIABLES
    workers,            \* main's argument
    paper_id,           \* main's argument: None, or the single paper to process
    ledger,             \* FAILED_EXTRACTIONS_FILE: number of lines holding each id
    ledger_start,       \* the file as it was when main was entered
    paper_ids_all,      \* what the catalog query returned to main
    paper_ids,          \* main's worklist
    mainPc,             \* "start", "collect", "done", "no_papers", "exit"
    results_local,      \* collect's list
    summary,            \* the printed summary (None until printed)
    st,                 \* per document: position in process_paper and its locals
    r2,                 \* object store: keys put
    figures,            \* catalog: rows of the figures table
    now,                \* time.time()
    arxiv_last,         \* arxiv.org: when the latest PDF request arrived (None: never)
    last_pdf_download,  \* _last_pdf_download of each process
    selector,           \* a call of select_figures_simple: arguments and result
    vlm,                \* a call of process_paper_figures (worker): images, position, figure_urls
    locator,            \* extract_figures on one page: captions, images, per-caption results
    transcoder,         \* a call of downsample_image: input image, max_width, output
    ledger_file,        \* the ledger file as bytes, and the writers appending to it
    recogniser,         \* the caption test of extract_figures on one text block
    downloader,         \* download_pdf in one process under a running clock
    harvester,          \* a call of _harvest_common: pages, papers, inserts
    syncer              \* runs of sync_r2_to_d1_figures: bucket, catalog, lists

batchVars == <<workers, paper_id, ledger, ledger_start, paper_ids_all, paper_ids, mainPc,
               results_local, summary, st, r2, figures, now,
               arxiv_last, last_pdf_download>>

\* the components that are exercised on their own, outside a batch run
unitVars == <<selector, vlm, locator, transcoder, ledger_file, recogniser,
              downloader, harvester, syncer>>

\* everything but the one component an action works on
exceptSelector == <<batchVars, vlm, locator, transcoder, ledger_file, recogniser,
                  downloader, harvester, syncer>>
exceptVlm == <<batchVars, selector, locator, transcoder, ledger_file, recogniser,
                  downloader, harvester, syncer>>
exceptLocator == <<batchVars, selector, vlm, transcoder, ledger_file, recogniser,
                  downloader, harvester, syncer>>
exceptTranscoder == <<batchVars, selector, vlm, locator, ledger_file, recogniser,
                  downloader, harvester, syncer>>
exceptLedgerFile == <<batchVars, selector, vlm, locator, transcoder, recogniser,
                  downloader, harvester, syncer>>
exceptRecogniser == <<batchVars, selector, vlm, locator, transcoder, ledger_file,
                      downloader, harvester, syncer>>
exceptDownloader == <<batchVars, selector, vlm, locator, transcoder, ledger_file,
                      recogniser, harvester, syncer>>
exceptHarvester == <<batchVars, selector, vlm, locator, transcoder, ledger_file,
                     recogniser, downloader, syncer>>
exceptSyncer == <<batchVars, selector, vlm, locator, transcoder, ledger_file,
                  recogniser, downloader, harvester>>

vars == <<batchVars, unitVars>>

\* ------------------------------------------------------------- exceptions
\* requests.HTTPError raised by response.raise_for_status() in download_pdf
HTTPError(status) == [cls |-> "HTTPError", status |-> status]
\* botocore's ClientError raised by s3.put_object in upload_to_r2
ClientError(status) == [cls |-> "ClientError", status |-> status]
\* any other exception (timeout, corrupt PDF, undecodable image, D1 failure, OSError)
OtherError == [cls |-> "Exception", status |-> 0]

DownloadErrors == {HTTPError(503), HTTPError(404), OtherError}
UploadErrors == {ClientError(503), OtherError}

\* str(e)
str(e) == <<e.cls, e.status>>

\* --------------------------------------------------------------- ledger
\* load_failed_extractions: the set of the file's stripped non-empty lines
load_failed_extractions == {d \in Docs : ledger[d] > 0}

\* the append left out
mark_failed_extraction_noop(d) == ledger

\* mark_failed_extraction: append one line
mark_failed_extraction(d) == [ledger EXCEPT ![d] = @ + 1]

\* ----------------------------------------------------------- the catalog
RECURSIVE Ascending(_, _)
Ascending(S, n) ==
    IF n > MaxDocs THEN <<>>
    ELSE (IF n \in S THEN <<n>> ELSE <<>>) \o Ascending(S, n + 1)

Take(s, k) == SubSeq(s, 1, IF k < Len(s) THEN k ELSE Len(s))

\* D1Client.get_papers_needing_figures: the papers of the category's table that
\* have no row in figures, newest first (identifiers are numbered by that order)
get_papers_needing_figures(papers, limit) ==
    Take(Ascending({p \in papers : \A k \in Kinds : <<p, k>> \notin figures}, 1), limit)

\* D1Client.insert_figure: upsert keyed by "<paper_id>-<kind>"
insert_figure(d, kind) == figures \cup {<<d, kind>>}

\* ---------------------------------------------------------- the worklist
\* the filter on failed_set left out
Worklist_unfiltered(pid, all, max_count) ==
    IF pid # None THEN <<pid[1]>> ELSE Take(all, max_count)

\* the ledger filter applied to the single paper too
Worklist_forceFiltered(pid, all, max_count) ==
    LET failed_set == load_failed_extractions
    IN  Take(SelectSeq(IF pid # None THEN <<pid[1]>> ELSE all,
                       LAMBDA p : p \notin failed_set), max_count)

\* main, lines 173-188: all is the answer of the catalog query
Worklist(pid, all, max_count) ==
    IF pid # None
    THEN <<pid[1]>>
    ELSE LET failed_set == load_failed_extractions
         IN  Take(SelectSeq(all, LAMBDA p : p \notin failed_set), max_count)

\* ----------------------------------------------------------- the selector
\* (width, height) of an extracted figure: at both thresholds, or just below one
Sizes == {<<FIGURE_MIN_WIDTH, FIGURE_MIN_HEIGHT>>,
          <<FIGURE_MIN_WIDTH - 1, FIGURE_MIN_HEIGHT>>,
          <<FIGURE_MIN_WIDTH, FIGURE_MIN_HEIGHT - 1>>}

RECURSIVE FigureLists(_)
FigureLists(n) ==
    IF n = 0 THEN {<<>>}
    ELSE FigureLists(n - 1) \cup
         {Append(s, f) : s \in {t \in FigureLists(n - 1) : Len(t) = n - 1}, f \in Sizes}

\* a figure exactly at a threshold rejected
select_figures_simple_strict(figs, min_width, min_height) ==
    LET valid == SelectSeq([i \in 1..Len(figs) |-> i],
                           LAMBDA i : figs[i][1] > min_width /\ figs[i][2] > min_height)
    IN  [teaser |-> IF Len(valid) >= 1 THEN valid[1] ELSE 0,
         architecture |-> IF Len(valid) >= 2 THEN valid[2] ELSE 0]

\* select_figures_simple: indices of (teaser, architecture) in the list, 0 for None
select_figures_simple(figs, min_width, min_height) ==
    LET valid == SelectSeq([i \in 1..Len(figs) |-> i],
                           LAMBDA i : figs[i][1] >= min_width /\ figs[i][2] >= min_height)
    IN  [teaser |-> IF Len(valid) >= 1 THEN valid[1] ELSE 0,
         architecture |-> IF Len(valid) >= 2 THEN valid[2] ELSE 0]

\* ------------------------------------------------------------ process_paper
\* result dict of process_paper, lines 59-64
NewResult(d) == [paper_id |-> d, success |-> FALSE, figures_uploaded |-> 0, error |-> None]

\* kind: the figure process_and_upload_figure is working on; cause: the __cause__
\* of the ServiceUnavailableError the call raised
InitDoc(d) == [pc |-> "Pending", w |-> 0, teaser |-> FALSE, architecture |-> FALSE,
               kind |-> "teaser", result |-> NewResult(d), cause |-> None]

\* process_paper has returned or raised: its locals are gone, the process is free
Leave(doc, pc) == [doc EXCEPT !.pc = pc, !.w = 0, !.teaser = FALSE,
                              !.architecture = FALSE, !.kind = "teaser"]

InFlight(d) == st[d].pc \notin {"Pending", "Returned", "Raised"}
Finished(d) == st[d].pc \in {"Returned", "Raised"}

\* the process is not inside process_paper
Idle(w) == \A d \in Docs : st[d].w = w => Finished(d)

\* the pool is alive / the sequential loop is running
Running == mainPc = "collect"

\* index of the first task nobody has taken yet (0 when there is none)
NextTask ==
    LET pend == {i \in 1..Len(paper_ids) : st[paper_ids[i]].pc = "Pending"}
    IN  IF pend = {} THEN 0 ELSE CHOOSE i \in pend : \A j \in pend : i <= j

\* a generator that runs ahead of its consumer
sequential_eager(task, collected) == TRUE

\* sequential, lines 219-221: the generator computes item n only when collect
\* asks for it, after items 1..n-1 have been appended
sequential(task, collected) == task = collected + 1

\* the status compared with a value it never equals
IsServiceUnavailable_never(e) == e.cls = "HTTPError" /\ e.status = -503

\* except clauses of process_paper, lines 137-149
IsServiceUnavailable(e) == e.cls = "HTTPError" /\ e.status = 503

\* the ledger marked before the 503 test
HandlerLedger_always(d, e) == mark_failed_extraction(d)

\* the except clauses without mark_failed_extraction
HandlerLedger_never(d, e) == ledger

HandlerLedger(d, e) ==
    IF IsServiceUnavailable(e) THEN ledger ELSE mark_failed_extraction(d)

HandlerDoc(d, e) ==
    IF IsServiceUnavailable(e)
    THEN Leave([st[d] EXCEPT !.cause = Some(e)], "Raised")
    ELSE [st[d] EXCEPT !.pc = "Marked", !.result.error = str(e)]

Except(d, e) ==
    /\ st' = [st EXCEPT ![d] = HandlerDoc(d, e)]
    /\ ledger' = HandlerLedger(d, e)

Max(a, b) == IF a >= b THEN a ELSE b

\* a worker takes the next task (Pool.imap), or the sequential generator calls
\* process_paper for the next argument; process_paper enters download_pdf, which
\* either sends the request at once or sleeps first (lines 37-44)
process_paper_Begin(w, d) ==
    /\ Running
    /\ w \in 1..Max(workers, 1)
    /\ Idle(w)
    /\ NextTask # 0
    /\ d = paper_ids[NextTask]
    /\ workers > 1 \/ sequential(NextTask, Len(results_local))
    /\ LET elapsed == now - last_pdf_download[w]
       IN  /\ st' = [st EXCEPT ![d] =
                       IF elapsed < PDF_MIN_INTERVAL
                       THEN [@ EXCEPT !.pc = "RateWait", !.w = w]
                       ELSE [@ EXCEPT !.pc = "Downloading", !.w = w]]
           /\ arxiv_last' = IF elapsed < PDF_MIN_INTERVAL THEN arxiv_last ELSE Some(now)
    /\ UNCHANGED <<workers, paper_id, ledger, ledger_start, paper_ids_all, paper_ids,
                   mainPc,
                   results_local, summary, r2, figures, now,
                   last_pdf_download>>
    /\ UNCHANGED unitVars

\* time.sleep(wait) returns: the clock has reached last + PDF_MIN_INTERVAL
download_pdf_Sleep(d) ==
    /\ Running
    /\ st[d].pc = "RateWait"
    /\ now' = Max(now, last_pdf_download[st[d].w] + PDF_MIN_INTERVAL)
    /\ arxiv_last' = Some(now')
    /\ st' = [st EXCEPT ![d].pc = "Downloading"]
    /\ UNCHANGED <<workers, paper_id, ledger, ledger_start, paper_ids_all, paper_ids,
                   mainPc,
                   results_local, summary, r2, figures,
                   last_pdf_download>>
    /\ UNCHANGED unitVars

\* requests.get answers (lines 44-52)
download_pdf_Ok(d) ==
    /\ Running
    /\ st[d].pc = "Downloading"
    /\ last_pdf_download' = [last_pdf_download EXCEPT ![st[d].w] = now]
    /\ st' = [st EXCEPT ![d].pc = "Extracting"]
    /\ UNCHANGED <<workers, paper_id, ledger, ledger_start, paper_ids_all, paper_ids,
                   mainPc,
                   results_local, summary, r2, figures, now, arxiv_last>>
    /\ UNCHANGED unitVars

download_pdf_Raises(d) ==
    /\ Running
    /\ st[d].pc = "Downloading"
    /\ \E e \in DownloadErrors : Except(d, e)
    /\ UNCHANGED <<workers, paper_id, ledger_start, paper_ids_all, paper_ids,
                   mainPc,
                   results_local, summary, r2, figures, now,
                   arxiv_last,
                   last_pdf_download>>
    /\ UNCHANGED unitVars

\* the test on the teaser alone, inverted for the architecture
NoFigureSelected_wrong(teaser, architecture) == ~teaser /\ architecture

\* line 88: if not teaser and not architecture
NoFigureSelected(teaser, architecture) == ~teaser /\ ~architecture

\* extract_figures and select_figures_simple (lines 76-96): local computation
\* on the downloaded file; with no figure selected the ledger is marked first
process_paper_Select(d) ==
    /\ Running
    /\ st[d].pc = "Extracting"
    /\ \/ Except(d, OtherError)
       \/ \E figs \in FigureLists(MaxFigures) :
            LET sel == select_figures_simple(figs, FIGURE_MIN_WIDTH, FIGURE_MIN_HEIGHT)
                teaser == sel.teaser # 0
                architecture == sel.architecture # 0
            IN  IF NoFigureSelected(teaser, architecture)
                THEN /\ ledger' = mark_failed_extraction(d)
                     /\ st' = [st EXCEPT ![d].pc = "NoFigures"]
                ELSE /\ st' = [st EXCEPT ![d].pc = "Full",
                                         ![d].teaser = teaser,
                                         ![d].architecture = architecture,
                                         ![d].kind = IF teaser THEN "teaser"
                                                     ELSE "architecture"]
                     /\ UNCHANGED ledger
    /\ UNCHANGED <<workers, paper_id, ledger_start, paper_ids_all, paper_ids,
                   mainPc,
                   results_local, summary, r2, figures, now, arxiv_last,
                   last_pdf_download>>
    /\ UNCHANGED unitVars

\* the "No figures" return (lines 90-96): pdf_path.unlink(), then return result
process_paper_NoFigures(d) ==
    /\ Running
    /\ st[d].pc = "NoFigures"
    /\ \/ Except(d, OtherError)
       \/ /\ st' = [st EXCEPT ![d] = Leave([@ EXCEPT !.result.error = <<"No figures", 0>>],
                                            "Returned")]
          /\ UNCHANGED ledger
    /\ UNCHANGED <<workers, paper_id, ledger_start, paper_ids_all, paper_ids,
                   mainPc,
                   results_local, summary, r2, figures, now, arxiv_last,
                   last_pdf_download>>
    /\ UNCHANGED unitVars

\* keys of process_and_upload_figure (lines 103-104)
r2_key(d, kind) == <<"figures", d, kind>>
thumb_key(d, kind) == <<"figures", d, kind, "thumb">>

\* process_and_upload_figure, lines 100-109: both variants are transcoded, then
\* the full object is put
process_and_upload_figure_Full(d) ==
    /\ Running
    /\ st[d].pc = "Full"
    /\ \/ \E e \in UploadErrors : Except(d, e) /\ UNCHANGED r2
       \/ /\ r2' = r2 \cup {r2_key(d, st[d].kind)}
          /\ st' = [st EXCEPT ![d].pc = "Thumb"]
          /\ UNCHANGED ledger
    /\ UNCHANGED <<workers, paper_id, ledger_start, paper_ids_all, paper_ids,
                   mainPc,
                   results_local, summary, figures, now, arxiv_last,
                   last_pdf_download>>
    /\ UNCHANGED unitVars

\* the thumbnail reported as uploaded without the put
process_and_upload_figure_Thumb_skipped(d) ==
    /\ Running
    /\ st[d].pc = "Thumb"
    /\ st' = [st EXCEPT ![d].pc = "Insert"]
    /\ UNCHANGED <<workers, paper_id, ledger, ledger_start, paper_ids_all, paper_ids,
                   mainPc,
                   results_local, summary, r2, figures, now, arxiv_last,
                   last_pdf_download>>
    /\ UNCHANGED unitVars

\* process_and_upload_figure, line 110: the thumbnail object is put
process_and_upload_figure_Thumb(d) ==
    /\ Running
    /\ st[d].pc = "Thumb"
    /\ \/ \E e \in UploadErrors : Except(d, e) /\ UNCHANGED r2
       \/ /\ r2' = r2 \cup {thumb_key(d, st[d].kind)}
          /\ st' = [st EXCEPT ![d].pc = "Insert"]
          /\ UNCHANGED ledger
    /\ UNCHANGED <<workers, paper_id, ledger_start, paper_ids_all, paper_ids,
                   mainPc,
                   results_local, summary, figures, now, arxiv_last,
                   last_pdf_download>>
    /\ UNCHANGED unitVars

\* where process_paper goes after the upsert of a kind (lines 113-132)
AfterInsert_uncounted(d) ==
    IF st[d].kind = "teaser" /\ st[d].architecture
    THEN [st[d] EXCEPT !.pc = "Full", !.kind = "architecture"]
    ELSE [st[d] EXCEPT !.pc = "Cleanup"]

\* lines 114-116 and 131: the counter follows the insert that returned
AfterInsert(d) ==
    IF st[d].kind = "teaser" /\ st[d].architecture
    THEN [st[d] EXCEPT !.pc = "Full", !.kind = "architecture",
                       !.result.figures_uploaded = @ + 1]
    ELSE [st[d] EXCEPT !.pc = "Cleanup", !.result.figures_uploaded = @ + 1]

\* d1.insert_figure (lines 108-113 and 125-130); D1Client raises a plain Exception
process_paper_Insert(d) ==
    /\ Running
    /\ st[d].pc = "Insert"
    /\ \/ Except(d, OtherError) /\ UNCHANGED figures
       \/ /\ figures' = insert_figure(d, st[d].kind)
          /\ st' = [st EXCEPT ![d] = AfterInsert(d)]
          /\ UNCHANGED ledger
    /\ UNCHANGED <<workers, paper_id, ledger_start, paper_ids_all, paper_ids,
                   mainPc,
                   results_local, summary, r2, now, arxiv_last,
                   last_pdf_download>>
    /\ UNCHANGED unitVars

\* lines 132-133 and 151: pdf_path.unlink(), success, return result
process_paper_Complete(d) ==
    /\ Running
    /\ st[d].pc = "Cleanup"
    /\ \/ Except(d, OtherError)
       \/ /\ st' = [st EXCEPT ![d] = Leave([@ EXCEPT !.result.success = TRUE], "Returned")]
          /\ UNCHANGED ledger
    /\ UNCHANGED <<workers, paper_id, ledger_start, paper_ids_all, paper_ids,
                   mainPc,
                   results_local, summary, r2, figures, now, arxiv_last,
                   last_pdf_download>>
    /\ UNCHANGED unitVars

\* line 151 after an except clause has marked the ledger
process_paper_Return(d) ==
    /\ Running
    /\ st[d].pc = "Marked"
    /\ st' = [st EXCEPT ![d] = Leave(@, "Returned")]
    /\ UNCHANGED <<workers, paper_id, ledger, ledger_start, paper_ids_all, paper_ids,
                   mainPc,
                   results_local, summary, r2, figures, now, arxiv_last,
                   last_pdf_download>>
    /\ UNCHANGED unitVars

\* ------------------------------------------------------------------- main
RECURSIVE SumFigures(_)
SumFigures(rs) ==
    IF rs = <<>> THEN 0 ELSE Head(rs).figures_uploaded + SumFigures(Tail(rs))

\* a paper counted as processed as soon as it uploaded a figure
Summary_countsUploads(rs) ==
    [processed |-> Len(SelectSeq(rs, LAMBDA r : r.figures_uploaded > 0)),
     total |-> Len(rs),
     figures |-> SumFigures(rs),
     failed |-> SelectSeq(rs, LAMBDA r : ~r.success)]

\* main, lines 225-238
Summary(rs) ==
    [processed |-> Len(SelectSeq(rs, LAMBDA r : r.success)),
     total |-> Len(rs),
     figures |-> SumFigures(rs),
     failed |-> SelectSeq(rs, LAMBDA r : ~r.success)]

\* the item the iterator hands to collect next: imap yields in worklist order
NextItem == paper_ids[Len(results_local) + 1]

\* collect, lines 200-201
collect_append(rs, item) == Append(rs, item)

collect_Item ==
    /\ mainPc = "collect"
    /\ Len(results_local) < Len(paper_ids)
    /\ st[NextItem].pc = "Returned"
    /\ results_local' = collect_append(results_local, st[NextItem].result)
    /\ UNCHANGED <<workers, paper_id, ledger, ledger_start, paper_ids_all, paper_ids,
                   mainPc,
                   summary, st, r2, figures, now, arxiv_last,
                   last_pdf_download>>
    /\ UNCHANGED unitVars

\* the summary printed before leaving
collect_except_summarises(rs) == [mainPc |-> "exit", summary |-> Some(Summary(rs))]

\* collect, lines 202-207: pool.terminate(), pool.join(), SystemExit(str(exc));
\* nothing is returned to main and nothing is printed but the message
collect_except(rs) == [mainPc |-> "exit", summary |-> None]

collect_Stop ==
    /\ mainPc = "collect"
    /\ Len(results_local) < Len(paper_ids)
    /\ st[NextItem].pc = "Raised"
    /\ mainPc' = collect_except(results_local).mainPc
    /\ summary' = collect_except(results_local).summary
    /\ UNCHANGED <<workers, paper_id, ledger, ledger_start, paper_ids_all, paper_ids,
                   results_local, st, r2, figures, now, arxiv_last,
                   last_pdf_download>>
    /\ UNCHANGED unitVars

\* main, lines 225-238, once collect has returned
main_Summary ==
    /\ mainPc = "collect"
    /\ Len(results_local) = Len(paper_ids)
    /\ summary' = Some(Summary(results_local))
    /\ mainPc' = "done"
    /\ UNCHANGED <<workers, paper_id, ledger, ledger_start, paper_ids_all, paper_ids,
                   results_local, st, r2, figures, now, arxiv_last,
                   last_pdf_download>>
    /\ UNCHANGED unitVars

\* no component is being exercised on its own
UnitsIdle ==
    /\ selector = None
    /\ vlm = None
    /\ locator = None
    /\ transcoder = None
    /\ ledger_file = None
    /\ recogniser = None
    /\ downloader = None
    /\ harvester = None
    /\ syncer = None

Init ==
    /\ UnitsIdle
    /\ workers \in {1, MAX_WORKERS}
    /\ paper_id \in {None} \cup {Some(d) : d \in Docs}
    /\ ledger \in [Docs -> 0..1]
    /\ ledger_start = ledger
    /\ paper_ids_all = <<>>
    /\ paper_ids = <<>>
    /\ mainPc = "start"
    /\ results_local = <<>>
    /\ summary = None
    /\ st = [d \in Docs |-> InitDoc(d)]
    /\ r2 = {}
    /\ figures = {}
    /\ now = PDF_MIN_INTERVAL
    /\ arxiv_last = None
    /\ last_pdf_download = [w \in Procs |-> 0]

\* main, lines 173-195
main_BuildWorklist ==
    /\ mainPc = "start"
    /\ \E max_count \in 1..MaxCount, papers \in SUBSET Docs :
         /\ paper_ids_all' = IF paper_id # None THEN <<>>
                              ELSE get_papers_needing_figures(papers, max_count * 2)
         /\ paper_ids' = Worklist(paper_id, paper_ids_all', max_count)
         /\ mainPc' = IF paper_ids' = <<>> THEN "no_papers" ELSE "collect"
    /\ UNCHANGED <<workers, paper_id, ledger, ledger_start, results_local,
                   summary, st, r2, figures, now, arxiv_last,
                   last_pdf_download>>
    /\ UNCHANGED unitVars

Next ==
    \/ main_BuildWorklist
    \/ \E w \in Procs, d \in Docs : process_paper_Begin(w, d)
    \/ \E d \in Docs : download_pdf_Sleep(d)
    \/ \E d \in Docs : download_pdf_Ok(d)
    \/ \E d \in Docs : download_pdf_Raises(d)
    \/ \E d \in Docs : process_paper_Select(d)
    \/ \E d \in Docs : process_paper_NoFigures(d)
    \/ \E d \in Docs : process_and_upload_figure_Full(d)
    \/ \E d \in Docs : process_and_upload_figure_Thumb(d)
    \/ \E d \in Docs : process_paper_Insert(d)
    \/ \E d \in Docs : process_paper_Complete(d)
    \/ \E d \in Docs : process_paper_Return(d)
    \/ collect_Item
    \/ collect_Stop
    \/ main_Summary

Spec == Init /\ [][Next]_vars

\* ------------------------------------------------- components on their own
\* no batch run: the state of main before it has read anything
BatchIdle ==
    /\ workers = 1
    /\ paper_id = None
    /\ ledger = [d \in Docs |-> 0]
    /\ ledger_start = ledger
    /\ paper_ids_all = <<>>
    /\ paper_ids = <<>>
    /\ mainPc = "start"
    /\ results_local = <<>>
    /\ summary = None
    /\ st = [d \in Docs |-> InitDoc(d)]
    /\ r2 = {}
    /\ figures = {}
    /\ now = PDF_MIN_INTERVAL
    /\ arxiv_last = None
    /\ last_pdf_download = [w \in Procs |-> 0]

\* ---- select_figures_simple
MaxSelFigures == 3

\* (min_width, min_height): the defaults of the signature and a second pair
SelectorThresholds == {<<FIGURE_MIN_WIDTH, FIGURE_MIN_HEIGHT>>,
                       <<FIGURE_MIN_WIDTH - 1, FIGURE_MIN_HEIGHT - 1>>}

InitSelector ==
    /\ BatchIdle
    /\ vlm = None /\ locator = None /\ transcoder = None
    /\ ledger_file = None /\ recogniser = None
    /\ downloader = None /\ harvester = None /\ syncer = None
    /\ \E figs \in FigureLists(MaxSelFigures), t \in SelectorThresholds :
         selector = Some([figures |-> figs, min_width |-> t[1], min_height |-> t[2],
                          result |-> None])

\* one call of select_figures_simple with the arguments drawn by InitSelector
select_figures_simple_Call ==
    /\ selector # None
    /\ selector[1].result = None
    /\ selector' = Some([selector[1] EXCEPT !.result =
                            Some(select_figures_simple(selector[1].figures,
                                                       selector[1].min_width,
                                                       selector[1].min_height))])
    /\ UNCHANGED exceptSelector

NextSelector == select_figures_simple_Call

SpecSelector == InitSelector /\ [][NextSelector]_vars

\* ---------------------------------------------------------------- claims
Worklisted == {paper_ids[i] : i \in 1..Len(paper_ids)}
Raised(d) == st[d].pc = "Raised"
Gained(d) == ledger[d] > ledger_start[d]
Stopped == ~ENABLED Next

\* C1: once some process_paper call has raised ServiceUnavailableError, no
\* document that has not yet started leaves Pending (starts its PDF download),
\* and main never completes normally in such a run.
C1_GlobalStop ==
    /\ [][(\E r \in Docs : Raised(r)) =>
            \A d \in Docs : st[d].pc = "Pending" => st'[d].pc = "Pending"]_vars
    /\ []((\E r \in Docs : Raised(r)) => mainPc # "done")

\* C2: whenever a PDF request is sent, by whichever process, at least
\* PDF_MIN_INTERVAL has passed since the previous PDF request of the run.
C2_GlobalRateLimit ==
    [][\A d \in Docs :
          (st[d].pc # "Downloading" /\ st'[d].pc = "Downloading" /\ arxiv_last # None)
              => now' - arxiv_last[1] >= PDF_MIN_INTERVAL]_vars

\* C3: in automated mode no identifier of the ledger as it was at the start of
\* the run is in the worklist, and process_paper is never entered for it.
C3_LedgerExclusion ==
    paper_id = None =>
        \A d \in Docs : ledger_start[d] > 0 =>
            d \notin Worklisted /\ st[d] = InitDoc(d)

\* C3 witness: the catalog returned a document of the ledger, the run has
\* processed the rest of the answer and completed.
C3_Witness ==
    /\ paper_id = None
    /\ mainPc = "done"
    /\ \E i \in 1..Len(paper_ids_all) : ledger_start[paper_ids_all[i]] > 0

\* C4: a 503 on the PDF fetch never becomes an outcome: the call raises with
\* that HTTP error as cause, nothing is collected for the document, the ledger
\* gains no line for it, main does not complete normally, and a run that has
\* stopped with such a document has left through SystemExit.
C4_Fetch503 ==
    /\ \A d \in Docs : st[d].result.error # str(HTTPError(503))
    /\ \A d \in Docs : Raised(d) =>
          /\ st[d].cause = Some(HTTPError(503))
          /\ ~Gained(d)
          /\ \A i \in 1..Len(results_local) : results_local[i].paper_id # d
          /\ mainPc # "done"
          /\ Stopped => mainPc = "exit"

\* C4 witness: a document's PDF fetch was answered 503 and the run has ended.
C4_Witness ==
    /\ mainPc = "exit"
    /\ \E d \in Docs : Raised(d) /\ st[d].cause = Some(HTTPError(503))

\* C5: a 503 answer to an object-store upload is never recorded as an ordinary
\* failure of the document: no outcome carries it and no ledger line follows it.
C5_Upload503 ==
    \A d \in Docs : st[d].result.error # str(ClientError(503))

\* the document would be in the worklist of an automated run started now
Eligible(d) ==
    LET next == Worklist(None, get_papers_needing_figures(Docs, MaxDocs), MaxDocs)
    IN  \E i \in 1..Len(next) : next[i] = d

\* positions of process_paper before any except clause or the "No figures"
\* branch has called mark_failed_extraction
BeforeMark(d) ==
    st[d].pc \in {"RateWait", "Downloading", "Extracting", "Full", "Thumb", "Insert", "Cleanup"}

Rows(d) == {k \in Kinds : <<d, k>> \in figures}

\* C6 as claimed: after a global stop, every worklist document that did not
\* return (it raised, was terminated in flight, or never began) has gained no
\* ledger line and, if it was eligible before, is eligible for the next run.
C6_NoEntryOnStop ==
    mainPc = "exit" =>
        \A d \in Worklisted : st[d].pc # "Returned" =>
            /\ ~Gained(d)
            /\ ledger_start[d] = 0 => Eligible(d)

\* C6 amended: after a global stop, the document that raised, a document that
\* never began and a document terminated before its own call reached
\* mark_failed_extraction have gained no ledger line; a terminated document has
\* a new line only when its own call had already failed and marked it; and those
\* without a new line and without a catalog row are eligible for the next run.
C6_NoEntryBeforeMark ==
    mainPc = "exit" =>
        \A d \in Worklisted :
            /\ (Raised(d) \/ st[d].pc = "Pending" \/ BeforeMark(d)) => ~Gained(d)
            /\ (InFlight(d) /\ Gained(d)) => st[d].pc \in {"NoFigures", "Marked"}
            /\ (st[d].pc # "Returned" /\ ~Gained(d) /\ Rows(d) = {} /\ ledger_start[d] = 0)
                  => Eligible(d)
            /\ (Raised(d) \/ st[d].pc = "Pending") => Rows(d) = {}

\* C6 witness: the pool was terminated while one document had raised and
\* another was in flight.
C6_Witness ==
    /\ mainPc = "exit"
    /\ \E d \in Worklisted : Raised(d)
    /\ \E d \in Worklisted : BeforeMark(d)

C8_NoFigureFound ==
    \A d \in Docs :
        /\ (st[d].pc = "NoFigures" \/ st[d].result.error = <<"No figures", 0>>) =>
              /\ Gained(d)
              /\ ~st[d].result.success
              /\ st[d].result.figures_uploaded = 0
              /\ Rows(d) = {}
              /\ \A k \in Kinds : r2_key(d, k) \notin r2 /\ thumb_key(d, k) \notin r2
        /\ st[d].pc \in {"Full", "Thumb", "Insert", "Cleanup"} =>
              st[d].teaser \/ st[d].architecture

\* C8 witness: the first document had no figure, the batch went on and the
\* second document was published.
C8_Witness ==
    /\ mainPc = "done"
    /\ Len(results_local) = 2
    /\ results_local[1].error = <<"No figures", 0>>
    /\ results_local[2].success

OnePerDocument ==
    /\ Len(results_local) = Len(paper_ids)
    /\ \A i \in 1..Len(paper_ids) : results_local[i].paper_id = paper_ids[i]
    /\ summary # None
    /\ summary[1].total = Len(paper_ids)
    /\ summary[1].processed + Len(summary[1].failed) = Len(paper_ids)

\* C10 as claimed: a run in which no call raised ends with the summary printed
\* and exactly one outcome per worklist document.
C10_NormalCompletion ==
    /\ mainPc = "done" => OnePerDocument
    /\ ((\A d \in Docs : ~Raised(d)) /\ Stopped) => (mainPc = "done" /\ summary # None)

\* C10 amended: a run with a non-empty worklist in which no call raised ends with
\* the summary printed and exactly one outcome per worklist document; with an
\* empty worklist main returns before the summary.
C10_NormalCompletionNonEmpty ==
    /\ mainPc = "done" => OnePerDocument
    /\ ((\A d \in Docs : ~Raised(d)) /\ Stopped) =>
          IF paper_ids = <<>>
          THEN mainPc = "no_papers" /\ summary = None
          ELSE mainPc = "done" /\ summary # None

\* C10 witness: a pool run over two documents, one failed, completed.
C10_Witness ==
    /\ mainPc = "done"
    /\ workers > 1
    /\ Len(paper_ids) = 2
    /\ Len(summary[1].failed) = 1

\* C11: with a paper_id given, the worklist is exactly that one document, also
\* when the ledger holds it, and the catalog was not queried.
C11_ForceMode ==
    (paper_id # None /\ mainPc # "start") =>
        /\ paper_ids = <<paper_id[1]>>
        /\ paper_ids_all = <<>>
        /\ mainPc # "no_papers"

\* C11 witness: the forced paper was in the ledger and has been processed.
C11_Witness ==
    /\ paper_id # None
    /\ ledger_start[paper_id[1]] > 0
    /\ st[paper_id[1]].pc = "Returned"
    /\ mainPc = "done"
\* ---- process_paper_figures (worker)
MaxImages == 3

Min(a, b) == IF a <= b THEN a ELSE b

\* line 226: the first 5 images without the teaser, at most 4 of them (positions from 1)
arch_image_indices(images, teaser_idx) ==
    Take(SelectSeq([i \in 1..Min(5, Len(images)) |-> i], LAMBDA i : i # teaser_idx), 4)

\* lines 254-256: max over the non-teaser images by width * height; Python's max
\* keeps the first of equal maxima
LargestNonTeaser(images, teaser_idx) ==
    LET candidates == {i \in 1..Len(images) : i # teaser_idx}
        area(i) == images[i][1] * images[i][2]
    IN  CHOOSE i \in candidates :
            \A j \in candidates : area(j) < area(i) \/ (area(j) = area(i) /\ j >= i)

\* extract_images has returned; lines 187-196
InitVlm ==
    /\ BatchIdle
    /\ selector = None /\ locator = None /\ transcoder = None
    /\ ledger_file = None /\ recogniser = None
    /\ downloader = None /\ harvester = None /\ syncer = None
    /\ \E images \in FigureLists(MaxImages) :
         vlm = Some([images |-> images,
                     pc |-> IF images = <<>> THEN "return" ELSE "teaser",
                     teaser_idx |-> 0,
                     figure_urls |-> [teaser |-> 0, architecture |-> 0],
                     failed |-> {}])

\* line 224: the architecture block is entered with more than one image
AfterTeaser(images) == IF Len(images) > 1 THEN "architecture" ELSE "return"

\* lines 200-216: classify_figures answers with one of the candidates
classify_teaser_Returns ==
    /\ vlm # None
    /\ vlm[1].pc = "teaser"
    /\ \E i \in 1..Min(3, Len(vlm[1].images)) :
         vlm' = Some([vlm[1] EXCEPT !.teaser_idx = i,
                                    !.figure_urls.teaser = i,
                                    !.pc = AfterTeaser(vlm[1].images)])
    /\ UNCHANGED exceptVlm

\* lines 217-221: the try block raised; the handler saves images[0], and a
\* save_figure that raises there is caught by the outer handler (line 262)
classify_teaser_Raises ==
    /\ vlm # None
    /\ vlm[1].pc = "teaser"
    /\ \/ vlm' = Some([vlm[1] EXCEPT !.teaser_idx = 1,
                                      !.figure_urls.teaser = 1,
                                      !.failed = @ \cup {"teaser"},
                                      !.pc = AfterTeaser(vlm[1].images)])
       \/ vlm' = Some([vlm[1] EXCEPT !.teaser_idx = 1,
                                      !.failed = @ \cup {"teaser"},
                                      !.pc = "return"])
    /\ UNCHANGED exceptVlm

\* lines 231-250
classify_architecture_Returns ==
    /\ vlm # None
    /\ vlm[1].pc = "architecture"
    /\ LET indices == arch_image_indices(vlm[1].images, vlm[1].teaser_idx)
       IN  \E rel \in 1..Len(indices) :
             vlm' = Some([vlm[1] EXCEPT !.figure_urls.architecture = indices[rel],
                                        !.pc = "return"])
    /\ UNCHANGED exceptVlm

\* lines 251-258: the try block raised; the handler saves the largest image
\* that is not the teaser
classify_architecture_Raises ==
    /\ vlm # None
    /\ vlm[1].pc = "architecture"
    /\ \/ vlm' = Some([vlm[1] EXCEPT
                        !.figure_urls.architecture =
                            LargestNonTeaser(vlm[1].images, vlm[1].teaser_idx),
                        !.failed = @ \cup {"architecture"},
                        !.pc = "return"])
       \/ vlm' = Some([vlm[1] EXCEPT !.failed = @ \cup {"architecture"},
                                      !.pc = "return"])
    /\ UNCHANGED exceptVlm

\* line 267: on every path the function returns figure_urls
process_paper_figures_Return ==
    /\ vlm # None
    /\ vlm[1].pc = "return"
    /\ vlm' = Some([vlm[1] EXCEPT !.pc = "returned"])
    /\ UNCHANGED exceptVlm

NextVlm ==
    \/ classify_teaser_Returns
    \/ classify_teaser_Raises
    \/ classify_architecture_Returns
    \/ classify_architecture_Raises
    \/ process_paper_figures_Return

SpecVlm == InitVlm /\ [][NextVlm]_vars

\* ---- extract_figures on one page
MaxCaptions == 3
MaxPageImages == 2

Rect(x0, y0, x1, y1) == [x0 |-> x0, y0 |-> y0, x1 |-> x1, y1 |-> y1]

Abs(a) == IF a < 0 THEN 0 - a ELSE a

\* (page_w, page_h) in points
PageSizes == {<<600, 800>>, <<600, 200>>}

\* bounding boxes of caption blocks: a tall left-column caption, a short
\* right-column caption in its row, a side-by-side pair, a full-width caption,
\* one close below it, one near the foot of the page, two that reach the
\* page's lower edge, and one near the foot of a small page
CaptionBoxes == {Rect(50, 100, 290, 400), Rect(310, 140, 550, 160),
                 Rect(310, 300, 550, 320), Rect(50, 300, 290, 320),
                 Rect(50, 500, 550, 520), Rect(50, 540, 550, 560),
                 Rect(50, 700, 550, 720), Rect(50, 780, 290, 820),
                 Rect(310, 790, 550, 810), Rect(50, 180, 550, 195)}

\* bounding boxes of the images placed on the page
ImageBoxes == {Rect(60, 20, 280, 90), Rect(100, 190, 540, 290),
               Rect(100, 100, 500, 690), Rect(60, 330, 540, 490)}

\* line 117: the captions of a page in the order of their top edge; captions
\* with equal top edge keep their block order, which is any order
CaptionLists ==
    UNION {{s \in [1..n -> CaptionBoxes] :
                \A i, j \in 1..n : i < j => (s[i].y0 <= s[j].y0 /\ s[i] # s[j])} :
           n \in 0..MaxCaptions}

ImageSets == {S \in SUBSET ImageBoxes : Cardinality(S) <= MaxPageImages}

\* fitz.Rect.is_empty, Rect.intersects, Rect.width and Rect.height
is_empty(r) == r.x0 >= r.x1 \/ r.y0 >= r.y1

intersects(a, b) ==
    /\ ~is_empty(a) /\ ~is_empty(b)
    /\ Max(a.x0, b.x0) < Min(a.x1, b.x1)
    /\ Max(a.y0, b.y0) < Min(a.y1, b.y1)

width(r) == IF r.x1 > r.x0 THEN r.x1 - r.x0 ELSE 0

height(r) == IF r.y1 > r.y0 THEN r.y1 - r.y0 ELSE 0

\* _find_images_in_rect: the centre tests are written without the division
find_images_in_rect(images, rect, left, right) ==
    {bbox \in images :
        /\ intersects(bbox, rect)
        /\ 2 * rect.y0 <= bbox.y0 + bbox.y1 /\ bbox.y0 + bbox.y1 <= 2 * rect.y1
        /\ 2 * left <= bbox.x0 + bbox.x1 /\ bbox.x0 + bbox.x1 <= 2 * right}

MinOf(S) == CHOOSE m \in S : \A n \in S : m <= n

MaxOf(S) == CHOOSE m \in S : \A n \in S : m >= n

\* _get_horizontal_bounds for caption i: sorted() is stable and the caption
\* itself is first in the list it sorts, so its left neighbour has a strictly
\* smaller centre
get_horizontal_bounds(caps, i, page_width) ==
    LET cx2(j) == caps[j].x0 + caps[j].x1
        captions_same_row == {j \in 1..Len(caps) :
                                Abs(caps[j].y0 - caps[i].y0) < 50 /\ caps[j] # caps[i]}
        before == {j \in captions_same_row : cx2(j) < cx2(i)}
        after == captions_same_row \ before
        prev == CHOOSE j \in before :
                    \A k \in before : cx2(k) < cx2(j) \/ (cx2(k) = cx2(j) /\ k <= j)
        next == CHOOSE j \in after :
                    \A k \in after : cx2(k) > cx2(j) \/ (cx2(k) = cx2(j) /\ k >= j)
        margin == Max(50, ((caps[i].x1 - caps[i].x0) * 3) \div 10)
    IN  IF captions_same_row # {}
        THEN [left |-> IF before # {} THEN caps[prev].x1 + 20 ELSE 0,
              right |-> IF after # {} THEN caps[next].x0 - 20 ELSE page_width]
        ELSE [left |-> Max(0, caps[i].x0 - margin),
              right |-> Min(page_width, caps[i].x1 + margin)]

\* the previous caption's top edge taken instead of its bottom edge
safe_top_fromTop(caps, i, page_h) ==
    Max(0, Min(IF i > 1 THEN caps[i - 1].y0 - 10 ELSE 0, page_h))

\* lines 125 and 132
safe_top(caps, i, page_h) ==
    Max(0, Min(IF i > 1 THEN caps[i - 1].y1 + 10 ELSE 0, page_h))

\* lines 127-130 and 133
bottom(caps, i, page_h) ==
    Max(0, Min(IF i < Len(caps) THEN Min(caps[i].y0, caps[i + 1].y0 - 10)
                                ELSE caps[i].y0,
               page_h))

\* the expanded top without the safe top
new_top_unclamped(st0, min_top) == min_top - 10

\* line 150
new_top(st0, min_top) == Max(st0, min_top - 10)

\* a window of 20 points above the caption
search_window_narrow(page_h) == 20

\* line 138: page_h * 0.6
search_window(page_h) == (page_h * 6) \div 10

\* the adjusted top without the safe top
adjusted_top_unclamped(st0, y0) == y0 - 200

\* line 140
adjusted_top(st0, y0) == Max(st0, y0 - 200)

\* lines 123-168 for caption i: the search region, the searches made and the
\* figure rectangle
locate(caps, images, i, page_w, page_h) ==
    LET st0 == safe_top(caps, i, page_h)
        bot == bottom(caps, i, page_h)
        is_tight == bot - st0 < 150
        top0 == IF is_tight THEN st0 ELSE Max(st0, caps[i].y0 - search_window(page_h))
        top1 == IF bot - top0 < 30 THEN adjusted_top(st0, caps[i].y0) ELSE top0
        hb == get_horizontal_bounds(caps, i, page_w)
        images1 == find_images_in_rect(images, Rect(hb.left, top1, hb.right, bot),
                                       hb.left, hb.right)
        min_top == MinOf({r.y0 : r \in images1})
        expand == /\ images1 # {}
                  /\ min_top < top1 - 20
                  /\ new_top(st0, min_top) < top1 - 20
        top2 == IF expand THEN new_top(st0, min_top) ELSE top1
        images2 == IF expand
                   THEN find_images_in_rect(images, Rect(hb.left, top2, hb.right, bot),
                                            hb.left, hb.right)
                   ELSE images1
        fig_rect == Rect(Max(0, MinOf({r.x0 : r \in images2}) - 10),
                         Max(st0, MinOf({r.y0 : r \in images2}) - 10),
                         Min(page_w, MaxOf({r.x1 : r \in images2}) + 10),
                         Min(page_h, caps[i].y1 + 3))
        min_h == IF is_tight THEN 30 ELSE 40
        min_w == IF is_tight THEN 60 ELSE 80
        accepted == /\ images2 # {}
                    /\ ~(height(fig_rect) < min_h \/ width(fig_rect) < min_w
                          \/ height(fig_rect) * 100 > page_h * 85)
    IN  [safe_top |-> st0, bottom |-> bot, is_tight |-> is_tight,
         top0 |-> top0, adjusted |-> bot - top0 < 30,
         top |-> top1, left |-> hb.left, right |-> hb.right,
         tops |-> IF expand THEN <<top1, top2>> ELSE <<top1>>,
         fig_rect |-> IF accepted THEN Some(fig_rect) ELSE None]

\* lines 101-120: a page with its captions sorted, before the caption loop
InitLocator ==
    /\ BatchIdle
    /\ selector = None /\ vlm = None /\ transcoder = None
    /\ ledger_file = None /\ recogniser = None
    /\ downloader = None /\ harvester = None /\ syncer = None
    /\ \E caps \in CaptionLists, images \in ImageSets, size \in PageSizes :
         /\ \A i \in 1..Len(caps) : caps[i].y0 < size[2]
         /\ locator = Some([figure_captions |-> caps, images |-> images,
                         page_w |-> size[1], page_h |-> size[2],
                         done |-> <<>>, filtered |-> {}, returned |-> FALSE])

\* one turn of the loop of line 122
extract_figures_Caption ==
    /\ locator # None
    /\ Len(locator[1].done) < Len(locator[1].figure_captions)
    /\ locator' = Some([locator[1] EXCEPT !.done =
                          Append(@, locate(locator[1].figure_captions, locator[1].images,
                                           Len(locator[1].done) + 1,
                                           locator[1].page_w, locator[1].page_h))])
    /\ UNCHANGED exceptLocator

\* lines 186-189 (the pixmap is rendered at twice the size in points)
extract_figures_Return ==
    /\ locator # None
    /\ Len(locator[1].done) = Len(locator[1].figure_captions)
    /\ ~locator[1].returned
    /\ locator' = Some([locator[1] EXCEPT
                          !.returned = TRUE,
                          !.filtered = {i \in 1..Len(locator[1].done) :
                                          /\ locator[1].done[i].fig_rect # None
                                          /\ 2 * width(locator[1].done[i].fig_rect[1]) > 300
                                          /\ 2 * height(locator[1].done[i].fig_rect[1]) > 150}])
    /\ UNCHANGED exceptLocator

NextLocator ==
    \/ extract_figures_Caption
    \/ extract_figures_Return

SpecLocator == InitLocator /\ [][NextLocator]_vars

\* ---- downsample_image
\* (width, height) of the input image and the max_width of the call: 800 for
\* the full variant and 200 for the thumbnail
ImageDims == {200, 201, 800, 801, 895, 928, 1600} \X {1, 145, 537, 580, 600}

MaxWidths == {800, 200}

RECURSIVE Pow2(_)
Pow2(k) == IF k = 0 THEN 1 ELSE 2 * Pow2(k - 1)

RECURSIVE Log2(_)
Log2(q) == IF q < 2 THEN 0 ELSE 1 + Log2(q \div 2)

\* (x * 2^k) mod w
RECURSIVE DoubleMod(_, _, _)
DoubleMod(x, k, w) == IF k = 0 THEN x % w ELSE DoubleMod((2 * x) % w, k - 1, w)

\* for m < w, the j >= 1 with 2^-j <= m/w < 2^(1-j)
RECURSIVE RatioExp(_, _, _)
RatioExp(m, w, j) == IF m * Pow2(j) >= w THEN j ELSE RatioExp(m, w, j + 1)

\* the quotient rounded to nearest
int_mul_ratio_rounded(h, m, w) == (2 * h * m + w) \div (2 * w)

\* lines 31-32 for m < w: int(h * (m / w)) in IEEE double arithmetic.
\* ratio is m/w rounded to 53 bits, ratio = (m * 2^s - rem) / (w * 2^s) with
\* s = 52 + j when it was rounded down. The product differs from h*m/w by far
\* less than 1/w, so int() only departs from the floor when h*m/w is an integer
\* q, ratio was rounded down, and the product h*ratio = q - h*rem/(w*2^s) does
\* not round back up to q, i.e. lies more than half a unit in the last place
\* below q.
int_mul_ratio(h, m, w) ==
    LET q == (h * m) \div w
        j == RatioExp(m, w, 1)
        rem == DoubleMod(m, 52 + j, w)
        Qodd == DoubleMod(m, 52 + j, 2 * w) >= w
        ratio_down == rem # 0 /\ (2 * rem < w \/ (2 * rem = w /\ ~Qodd))
        E == Log2(q)
        k == IF q = Pow2(E) THEN j + E - 1 ELSE j + E
        rounds_to_q == 2 * h * rem <= w * Pow2(k)
    IN  IF (h * m) % w # 0 THEN q
        ELSE IF ~ratio_down THEN q
        ELSE IF rounds_to_q THEN q
        ELSE q - 1

\* (img.mode, whether img.info carries a transparency entry) of the input
ImageModes == ({"RGB", "L", "CMYK", "RGBA", "LA", "P", "PA", "RGBa", "La", "1", "I"}
                  \X {FALSE}) \cup {<<"P", TRUE>>}

\* lines 35-45: the mode of the image that is saved, and whether the input was
\* pasted onto a white background through its alpha band
normalize_mode(mode) ==
    IF mode \in {"RGB", "L"} THEN [mode |-> mode, composited |-> FALSE]
    ELSE IF mode = "CMYK" THEN [mode |-> "RGB", composited |-> FALSE]
    ELSE IF mode \in {"RGBA", "LA"} THEN [mode |-> "RGB", composited |-> TRUE]
    ELSE IF mode = "P" THEN [mode |-> "RGB", composited |-> FALSE]
    ELSE [mode |-> "RGB", composited |-> FALSE]

InitTranscoder ==
    /\ BatchIdle
    /\ selector = None /\ vlm = None /\ locator = None
    /\ ledger_file = None /\ recogniser = None
    /\ downloader = None /\ harvester = None /\ syncer = None
    /\ \E size \in ImageDims, m \in MaxWidths, im \in ImageModes :
         transcoder = Some([width |-> size[1], height |-> size[2], max_width |-> m,
                            mode |-> im[1], transparency |-> im[2],
                            pc |-> "open", out |-> None, saved |-> None])

\* lines 30-49: the size and the mode of the image that is saved; Image.resize
\* raises ValueError for a height of 0
downsample_image_Call ==
    /\ transcoder # None
    /\ transcoder[1].pc = "open"
    /\ LET t == transcoder[1]
           new_height == int_mul_ratio(t.height, t.max_width, t.width)
       IN  transcoder' = Some(
             IF t.width > t.max_width
             THEN IF new_height = 0
                  THEN [t EXCEPT !.pc = "raised"]
                  ELSE [t EXCEPT !.pc = "returned",
                                 !.out = Some(<<t.max_width, new_height>>),
                                 !.saved = Some(normalize_mode(t.mode))]
             ELSE [t EXCEPT !.pc = "returned", !.out = Some(<<t.width, t.height>>),
                            !.saved = Some(normalize_mode(t.mode))])
    /\ UNCHANGED exceptTranscoder

NextTranscoder == downsample_image_Call

SpecTranscoder == InitTranscoder /\ [][NextTranscoder]_vars

\* ---- the ledger file under concurrent writers
\* the file as a sequence of characters: 0 is the newline, the identifier of
\* document d is the two characters d, d
Newline == 0

PaperIdText(d) == <<d, d>>

\* str.splitlines as file iteration does it: the last line may lack its newline
RECURSIVE SplitLines(_, _)
SplitLines(bytes, cur) ==
    IF bytes = <<>> THEN (IF cur = <<>> THEN {} ELSE {cur})
    ELSE IF Head(bytes) = Newline
         THEN (IF cur = <<>> THEN {} ELSE {cur}) \cup SplitLines(Tail(bytes), <<>>)
         ELSE SplitLines(Tail(bytes), Append(cur, Head(bytes)))

\* load_failed_extractions on the file's characters (lines 34-35)
load_failed_extractions_File(bytes) == SplitLines(bytes, <<>>)

\* the run has not started a writer yet; the file is empty or holds one line
InitLedgerFile ==
    /\ BatchIdle
    /\ selector = None /\ vlm = None /\ locator = None
    /\ transcoder = None /\ recogniser = None
    /\ downloader = None /\ harvester = None /\ syncer = None
    /\ \E d \in Docs \cup {0} :
         ledger_file = Some([bytes |-> IF d = 0 THEN <<>>
                                       ELSE Append(PaperIdText(d), Newline),
                             writer |-> [w \in Procs |-> [pc |-> "idle", buf |-> <<>>]],
                             marked |-> {},
                             read |-> None])

\* lines 42-43: a worker process opens the file for append and f.write puts
\* the line into the file object's buffer; nothing keeps a second process out
mark_failed_extraction_Open(w, d) ==
    /\ ledger_file # None
    /\ ledger_file[1].read = None
    /\ ledger_file[1].writer[w].pc = "idle"
    /\ d \notin ledger_file[1].marked
    /\ ledger_file' = Some([ledger_file[1] EXCEPT
            !.writer[w] = [pc |-> "open", buf |-> Append(PaperIdText(d), Newline)],
            !.marked = @ \cup {d}])
    /\ UNCHANGED exceptLedgerFile

\* leaving the with block flushes the buffer: one write call in append mode
\* puts all of it at the end of the file
mark_failed_extraction_Close(w) ==
    /\ ledger_file # None
    /\ ledger_file[1].writer[w].pc = "open"
    /\ ledger_file' = Some([ledger_file[1] EXCEPT
            !.bytes = @ \o ledger_file[1].writer[w].buf,
            !.writer[w] = [pc |-> "idle", buf |-> <<>>]])
    /\ UNCHANGED exceptLedgerFile

\* the write call of the flush takes only the first n characters (a short
\* write); the file object calls write again for the rest
mark_failed_extraction_ShortWrite(w) ==
    /\ ledger_file # None
    /\ ledger_file[1].writer[w].pc = "open"
    /\ \E n \in 1..(Len(ledger_file[1].writer[w].buf) - 1) :
         ledger_file' = Some([ledger_file[1] EXCEPT
            !.bytes = @ \o SubSeq(ledger_file[1].writer[w].buf, 1, n),
            !.writer[w].buf = SubSeq(@, n + 1, Len(@))])
    /\ UNCHANGED exceptLedgerFile

\* the next run reads the ledger (lines 29-35)
load_failed_extractions_Read ==
    /\ ledger_file # None
    /\ \A w \in Procs : ledger_file[1].writer[w].pc = "idle"
    /\ ledger_file[1].read = None
    /\ ledger_file[1].marked # {}
    /\ ledger_file' = Some([ledger_file[1] EXCEPT
            !.read = Some(load_failed_extractions_File(ledger_file[1].bytes))])
    /\ UNCHANGED exceptLedgerFile

NextLedgerFile ==
    \/ \E w \in Procs, d \in Docs : mark_failed_extraction_Open(w, d)
    \/ \E w \in Procs : mark_failed_extraction_Close(w)
    \/ \E w \in Procs : mark_failed_extraction_ShortWrite(w)
    \/ load_failed_extractions_Read

SpecLedgerFile == InitLedgerFile /\ [][NextLedgerFile]_vars

\* ---- the caption test of extract_figures
MaxTextLen == 4

\* a text is a sequence of tokens: a maximal run of letters, or one character
\* that is no letter
Tokens == {"Figure", "fig", "FIG", "x", ".", " ", "1"}

RECURSIVE Texts(_)
Texts(n) ==
    IF n = 0 THEN {<<>>}
    ELSE Texts(n - 1) \cup
         {Append(s, t) : s \in {u \in Texts(n - 1) : Len(u) = n - 1}, t \in Tokens}

\* re.IGNORECASE on the letter runs
Lower(t) == CASE t = "Figure" -> "figure"
              [] t = "FIG" -> "fig"
              [] OTHER -> t

IsSpace(t) == t = " "

IsDigit(t) == t = "1"

\* str.strip (line 109)
RECURSIVE lstrip(_)
lstrip(s) == IF s # <<>> /\ IsSpace(Head(s)) THEN lstrip(Tail(s)) ELSE s

RECURSIVE rstrip(_)
rstrip(s) ==
    IF s # <<>> /\ IsSpace(s[Len(s)]) THEN rstrip(SubSeq(s, 1, Len(s) - 1)) ELSE s

strip(s) == rstrip(lstrip(s))

\* \s+\d+ matches s from position q on
SpacesThenDigit(s, q) ==
    \E k \in 1..Len(s) :
        /\ q + k <= Len(s)
        /\ \A i \in q..(q + k - 1) : IsSpace(s[i])
        /\ IsDigit(s[q + k])

\* the pattern with \s* in place of \s+
re_match_noSpace(s) ==
    LET t == lstrip(s)
        DigitAt(q) == \E k \in 0..Len(t) :
                         /\ q + k <= Len(t)
                         /\ \A i \in q..(q + k - 1) : IsSpace(t[i])
                         /\ IsDigit(t[q + k])
    IN  /\ t # <<>>
        /\ \/ Lower(t[1]) = "figure" /\ DigitAt(2)
           \/ Lower(t[1]) = "fig" /\ DigitAt(2)
           \/ Lower(t[1]) = "fig" /\ Len(t) >= 2 /\ t[2] = "." /\ DigitAt(3)

\* re.match(r'^\s*(Figure|Fig\.?)\s+\d+', text, re.IGNORECASE), line 110
re_match(s) ==
    LET t == lstrip(s)
    IN  /\ t # <<>>
        /\ \/ Lower(t[1]) = "figure" /\ SpacesThenDigit(t, 2)
           \/ Lower(t[1]) = "fig" /\ SpacesThenDigit(t, 2)
           \/ Lower(t[1]) = "fig" /\ Len(t) >= 2 /\ t[2] = "." /\ SpacesThenDigit(t, 3)

InitRecogniser ==
    /\ BatchIdle
    /\ selector = None /\ vlm = None /\ locator = None
    /\ transcoder = None /\ ledger_file = None
    /\ downloader = None /\ harvester = None /\ syncer = None
    /\ \E text \in Texts(MaxTextLen) :
         recogniser = Some([block |-> text, match |-> None])

\* lines 109-111 for one text block
extract_figures_Match ==
    /\ recogniser # None
    /\ recogniser[1].match = None
    /\ recogniser' = Some([recogniser[1] EXCEPT
                             !.match = Some(re_match(strip(recogniser[1].block)))])
    /\ UNCHANGED exceptRecogniser

NextRecogniser == extract_figures_Match

SpecRecogniser == InitRecogniser /\ [][NextRecogniser]_vars

\* the positions of the figures of a selector call that meet both thresholds
Qualifying ==
    {i \in 1..Len(selector[1].figures) :
        /\ selector[1].figures[i][1] >= selector[1].min_width
        /\ selector[1].figures[i][2] >= selector[1].min_height}

\* C12: with K qualifying figures, the teaser is the first of them and the
\* architecture figure the second when K >= 2, the teaser alone is returned
\* when K = 1, and nothing when K = 0.
C12_PositionalSelector ==
    (selector # None /\ selector[1].result # None) =>
        LET r == selector[1].result[1]
            K == Cardinality(Qualifying)
        IN  /\ K = 0 => r.teaser = 0 /\ r.architecture = 0
            /\ K = 1 => r.teaser \in Qualifying /\ r.architecture = 0
            /\ K >= 2 =>
                 /\ r.teaser \in Qualifying
                 /\ \A j \in Qualifying : j >= r.teaser
                 /\ r.architecture \in Qualifying \ {r.teaser}
                 /\ \A j \in Qualifying \ {r.teaser} : j >= r.architecture

\* C12 witness: two qualifying figures behind a figure that does not qualify
C12_Witness ==
    /\ selector # None
    /\ selector[1].result # None
    /\ 1 \notin Qualifying
    /\ Cardinality(Qualifying) >= 2
    /\ selector[1].result[1].architecture # 0

\* C13: when the classifier call failed for a kind, the figure saved for that
\* kind is the positional choice: the first figure for the teaser and, with the
\* first figure as teaser, the second figure in document order for the
\* architecture.
C13_PositionalFallback ==
    vlm # None =>
        /\ ("teaser" \in vlm[1].failed /\ vlm[1].figure_urls.teaser # 0)
              => vlm[1].figure_urls.teaser = 1
        /\ ("architecture" \in vlm[1].failed /\ vlm[1].figure_urls.architecture # 0
               /\ vlm[1].teaser_idx = 1)
              => vlm[1].figure_urls.architecture = 2

\* the captions of the page that extract_figures has worked through
Done == IF locator = None THEN {} ELSE 1..Len(locator[1].done)

\* the closed intervals [safe_top, bottom] of two captions share a point
ZonesOverlap(a, b) == Max(a.safe_top, b.safe_top) <= Min(a.bottom, b.bottom)

C15_FigureRectsDisjoint ==
    \A i, j \in Done :
        (i < j /\ i \in locator[1].filtered /\ j \in locator[1].filtered)
            => ~intersects(locator[1].done[i].fig_rect[1], locator[1].done[j].fig_rect[1])

\* C18: the rectangle of the first image search of every caption has
\* top < bottom and left < right.
C18_SearchRegionWellFormed ==
    \A i \in Done :
        /\ locator[1].done[i].top < locator[1].done[i].bottom
        /\ locator[1].done[i].left < locator[1].done[i].right

\* C19: a caption's image search is re-run at most once, and every search top
\* and the top of the figure rectangle are at or below the safe top on the page
\* (>= safe_top).
C19_TallFigureExpansion ==
    \A i \in Done :
        LET c == locator[1].done[i]
        IN  /\ Len(c.tops) <= 2
            /\ \A k \in 1..Len(c.tops) : c.tops[k] >= c.safe_top
            /\ c.fig_rect # None => c.fig_rect[1].y0 >= c.safe_top

\* C19 witness: the search of a caption was re-run, the expansion was stopped
\* at a safe top below the page top, and the caption yields a figure
C19_Witness ==
    \E i \in Done :
        LET c == locator[1].done[i]
        IN  /\ Len(c.tops) = 2
            /\ c.safe_top > 0
            /\ c.tops[2] = c.safe_top
            /\ c.fig_rect # None

\* C16: what downsample_image outputs is max_width x floor(height * max_width
\* / width) for an image wider than max_width and the unchanged size otherwise.
C16_TranscoderSize ==
    (transcoder # None /\ transcoder[1].pc = "returned") =>
        LET t == transcoder[1]
        IN  t.out[1] = IF t.width > t.max_width
                       THEN <<t.max_width, (t.height * t.max_width) \div t.width>>
                       ELSE <<t.width, t.height>>

\* C16 as amended: the height is int(height * (max_width / width)) in double
\* arithmetic, which is the floor when height * max_width / width is no
\* integer and the floor or one less when it is; a height of 0 gives no output;
\* every output is at most max_width wide and its height is within one pixel
\* of the aspect-preserving value.
C16_TranscoderSizeFloat ==
    (transcoder # None /\ transcoder[1].pc # "open") =>
        LET t == transcoder[1]
            num == t.height * t.max_width
            floor == num \div t.width
        IN  IF t.width <= t.max_width
            THEN t.out = Some(<<t.width, t.height>>)
            ELSE /\ t.pc = "raised" => (t.out = None /\ floor <= 1)
                 /\ t.pc = "returned" =>
                      /\ t.out[1][1] = t.max_width
                      /\ t.out[1][2] >= 1
                      /\ t.out[1][2] \in {floor - 1, floor}
                      /\ num % t.width # 0 => t.out[1][2] = floor
                      /\ t.out[1][2] * t.width <= num
                      /\ num <= (t.out[1][2] + 1) * t.width

\* C16 witness: an image wider than max_width whose exact height is an integer
\* and whose output is one pixel lower
C16_Witness ==
    /\ transcoder # None
    /\ transcoder[1].pc = "returned"
    /\ transcoder[1].width > transcoder[1].max_width
    /\ (transcoder[1].height * transcoder[1].max_width) % transcoder[1].width = 0
    /\ transcoder[1].out[1][2] * transcoder[1].width
           < transcoder[1].height * transcoder[1].max_width

\* the worker processes that have the ledger open for append
Appending == {w \in Procs : ledger_file[1].writer[w].pc = "open"}

\* C17: the appends of concurrent workers exclude one another, the file never
\* holds an interleaved or partial line once the writers are through, and every
\* appended identifier is read back intact.
C17_AppendsSerialized ==
    ledger_file # None =>
        /\ Cardinality(Appending) <= 1
        /\ Appending = {} =>
              load_failed_extractions_File(ledger_file[1].bytes)
                  \subseteq {PaperIdText(d) : d \in Docs}
        /\ ledger_file[1].read # None =>
              \A d \in ledger_file[1].marked : PaperIdText(d) \in ledger_file[1].read[1]

\* the tokens of a tested block behind its leading whitespace
Block == lstrip(recogniser[1].block)

C21_TightClusterPin ==
    \A i \in Done :
        (/\ locator[1].done[i].bottom - locator[1].done[i].safe_top < 150
         /\ locator[1].figure_captions[i].y0 >= 0
         /\ locator[1].figure_captions[i].y0 <= locator[1].page_h)
            => locator[1].done[i].top = locator[1].done[i].safe_top

\* C21 witness: a tight caption more than 200 points down the page for which
\* the adjustment was made
C21_Witness ==
    \E i \in Done :
        /\ locator[1].done[i].is_tight
        /\ locator[1].done[i].adjusted
        /\ locator[1].figure_captions[i].y0 > 200
        /\ locator[1].done[i].top = locator[1].done[i].safe_top

\* C30: on a page of height >= 67, for a caption whose top edge lies on the
\* page and with bottom - safe_top >= 150, bottom - top < 30 is false and the
\* search top is the one computed before the adjustment.
C30_AdjustmentUnreachable ==
    \A i \in Done :
        (/\ locator[1].page_h >= 67
         /\ locator[1].done[i].bottom - locator[1].done[i].safe_top >= 150
         /\ locator[1].figure_captions[i].y0 >= 0
         /\ locator[1].figure_captions[i].y0 <= locator[1].page_h)
            => /\ ~locator[1].done[i].adjusted
               /\ locator[1].done[i].top = locator[1].done[i].top0

\* C30 witness: a caption that is not tight whose search top is set by the
\* window of 0.6 page heights, not by the safe top, on the small page
C30_Witness ==
    \E i \in Done :
        /\ ~locator[1].done[i].is_tight
        /\ locator[1].done[i].top0 > locator[1].done[i].safe_top
        /\ locator[1].page_h = 200

\* the input of the transcoder carries alpha: an alpha band, or a palette with
\* a transparency entry
HasAlpha ==
    \/ transcoder[1].mode \in {"RGBA", "LA", "PA", "RGBa", "La"}
    \/ transcoder[1].mode = "P" /\ transcoder[1].transparency

\* C22: downsample_image saves an image of mode RGB or L, and every input that
\* carries alpha was composited onto white, not converted with its alpha
\* dropped.
C22_ModeNormalization ==
    (transcoder # None /\ transcoder[1].pc = "returned") =>
        /\ transcoder[1].saved[1].mode \in {"RGB", "L"}
        /\ HasAlpha => transcoder[1].saved[1].composited

\* both objects of a document and kind are in the object store
Uploaded(d, k) == r2_key(d, k) \in r2 /\ thumb_key(d, k) \in r2

\* C23: the catalog upsert of a document and kind is issued only after both of
\* its objects were uploaded, so every catalog row names two stored objects,
\* and no architecture upload starts before the teaser is fully published.
C23_PublishOrdering ==
    \A d \in Docs :
        /\ st[d].pc = "Insert" => Uploaded(d, st[d].kind)
        /\ \A k \in Rows(d) : Uploaded(d, k)
        /\ (st[d].pc \in {"Full", "Thumb", "Insert"} /\ st[d].kind = "architecture")
              => ("teaser" \in Rows(d) /\ Uploaded(d, "teaser"))
        /\ (r2_key(d, "architecture") \in r2 \/ thumb_key(d, "architecture") \in r2)
              => "teaser" \in Rows(d)

\* C23 witness: a document with both kinds published while the other document's
\* architecture upload is half done
C23_Witness ==
    \E d, e \in Docs :
        /\ Rows(d) = Kinds
        /\ st[e].pc = "Thumb" /\ st[e].kind = "architecture"

\* C24: a call of process_paper that has returned appended its document to the
\* ledger exactly if its outcome has success = false, a call that raised
\* ServiceUnavailableError appended nothing, and a line for a document is only
\* ever appended by a step of that document's own call.
C24_LedgerOutcomeAgreement ==
    /\ [](\A d \in Docs :
            /\ st[d].pc = "Returned" => (Gained(d) <=> ~st[d].result.success)
            /\ Raised(d) => ~Gained(d))
    /\ [][\A d \in Docs :
            ledger'[d] # ledger[d] =>
                /\ InFlight(d)
                /\ st'[d] # st[d]
                /\ \A e \in Docs \ {d} : st'[e] = st[e] /\ ledger'[e] = ledger[e]]_vars

\* C24 witness: in one run a call returned success, another returned a failure
\* after two appends, and main has collected both
C24_Witness ==
    /\ mainPc = "done"
    /\ \E d, e \in Docs :
         /\ st[d].pc = "Returned" /\ st[d].result.success /\ ~Gained(d)
         /\ st[e].pc = "Returned" /\ ~st[e].result.success
         /\ ledger[e] = ledger_start[e] + 2

\* C25: with workers <= 1 at most one document is inside process_paper at any
\* time, a document has left Pending only when every earlier worklist document
\* has returned, and every document after one that raised
\* ServiceUnavailableError stays Pending and gains no ledger line.
C25_SequentialMode ==
    workers <= 1 =>
        /\ Cardinality({d \in Docs : InFlight(d)}) <= 1
        /\ \A i, j \in 1..Len(paper_ids) :
              i < j =>
                /\ st[paper_ids[j]].pc # "Pending" => st[paper_ids[i]].pc = "Returned"
                /\ Raised(paper_ids[i]) =>
                      /\ st[paper_ids[j]].pc = "Pending"
                      /\ ~Gained(paper_ids[j])

\* C25 witness: the sequential run stopped on its first document and the
\* second one never began
C25_Witness ==
    /\ workers <= 1
    /\ mainPc = "exit"
    /\ Len(paper_ids) = 2
    /\ Raised(paper_ids[1])
    /\ st[paper_ids[2]].pc = "Pending"

\* C26: an outcome with success = true counts one or two figures; the counter
\* of every outcome, failures included, equals the number of catalog rows the
\* call has upserted for its document; and an architecture figure is selected,
\* uploaded or catalogued only for a document whose teaser was selected and
\* (once the architecture is in the store) already catalogued.
C26_OutcomeCounters ==
    \A d \in Docs :
        /\ st[d].result.success => st[d].result.figures_uploaded \in {1, 2}
        /\ st[d].result.figures_uploaded = Cardinality(Rows(d))
        /\ st[d].architecture => st[d].teaser
        /\ (r2_key(d, "architecture") \in r2 \/ "architecture" \in Rows(d))
              => "teaser" \in Rows(d)

\* C26 witness: a call returned a failure after its teaser had been catalogued
\* and its architecture figure uploaded; the teaser row stays and is counted
C26_Witness ==
    \E d \in Docs :
        /\ st[d].pc = "Returned"
        /\ ~st[d].result.success
        /\ st[d].result.figures_uploaded = 1
        /\ Rows(d) = {"teaser"}
        /\ r2_key(d, "architecture") \in r2

\* ---- download_pdf in one process, with time passing during sleeps and requests
MaxClock == 22

\* what requests.get ends with: a final status, or 0 when no response arrives
\* (Timeout, ConnectionError)
Responses == {200, 404, 503, 0}

\* Response.raise_for_status (line 45): HTTPError for a 4xx or 5xx status
raise_for_status(status) == status >= 400 /\ status < 600

\* the timestamp taken when the request is sent
download_pdf_stamp_early(sent, received) == sent

\* line 47: time.time() after raise_for_status, the response fully read
download_pdf_stamp(sent, received) == received

\* last: _last_pdf_download; wake: when the sleep is over; sent: when the
\* current or latest request was sent; received: when the latest successful
\* response ended; gap: from that end to the sending of the next successful
\* request; outcome: how the latest call ended
InitDownloader ==
    /\ BatchIdle
    /\ selector = None /\ vlm = None /\ locator = None
    /\ transcoder = None /\ ledger_file = None /\ recogniser = None
    /\ harvester = None /\ syncer = None
    /\ downloader = Some([pc |-> "idle", clock |-> PDF_MIN_INTERVAL, last |-> 0,
                          wake |-> 0, sent |-> 0, received |-> None, gap |-> None,
                          outcome |-> None])

\* time.time() moves on, whatever the process is doing
Tick ==
    /\ downloader # None
    /\ downloader[1].clock < MaxClock
    /\ downloader' = Some([downloader[1] EXCEPT !.clock = @ + 1])
    /\ UNCHANGED exceptDownloader

\* lines 37-44: the elapsed test, then either the sleep or the request
download_pdf_Call ==
    /\ downloader # None
    /\ downloader[1].pc = "idle"
    /\ LET s == downloader[1]
           elapsed == s.clock - s.last
       IN  downloader' = Some(IF elapsed < PDF_MIN_INTERVAL
                              THEN [s EXCEPT !.pc = "sleeping",
                                             !.wake = s.clock + (PDF_MIN_INTERVAL - elapsed)]
                              ELSE [s EXCEPT !.pc = "requesting", !.sent = s.clock])
    /\ UNCHANGED exceptDownloader

\* time.sleep(wait) returns, not before wait has passed; the request is sent
time_sleep_Return ==
    /\ downloader # None
    /\ downloader[1].pc = "sleeping"
    /\ downloader[1].clock >= downloader[1].wake
    /\ downloader' = Some([downloader[1] EXCEPT !.pc = "requesting",
                                                 !.sent = downloader[1].clock])
    /\ UNCHANGED exceptDownloader

\* lines 44-52: requests.get ends; the timestamp is assigned only past
\* raise_for_status
requests_get_Return ==
    /\ downloader # None
    /\ downloader[1].pc = "requesting"
    /\ \E status \in Responses :
         LET s == downloader[1]
         IN  downloader' = Some(
               IF status = 0 \/ raise_for_status(status)
               THEN [s EXCEPT !.pc = "idle", !.outcome = Some(status)]
               ELSE [s EXCEPT !.pc = "idle", !.outcome = Some(status),
                              !.last = download_pdf_stamp(s.sent, s.clock),
                              !.received = Some(s.clock),
                              !.gap = IF s.received = None THEN s.gap
                                      ELSE Some(s.sent - s.received[1])])
    /\ UNCHANGED exceptDownloader

NextDownloader ==
    \/ Tick
    \/ download_pdf_Call
    \/ time_sleep_Return
    \/ requests_get_Return

SpecDownloader == InitDownloader /\ [][NextDownloader]_vars

\* C27: _last_pdf_download changes only in the step in which a request ends
\* with a 2xx response, a request that ends otherwise leaves it unchanged, it
\* always holds the end of the latest successful response, and between the end
\* of one successful download and the sending of the next successful request
\* of the process at least PDF_MIN_INTERVAL passes.
C27_TimestampFrame ==
    /\ [](downloader # None =>
            /\ downloader[1].gap # None => downloader[1].gap[1] >= PDF_MIN_INTERVAL
            /\ downloader[1].last = IF downloader[1].received = None THEN 0
                                    ELSE downloader[1].received[1])
    /\ [][(downloader # None /\ downloader' # None) =>
            /\ downloader'[1].last # downloader[1].last =>
                  /\ downloader[1].pc = "requesting"
                  /\ downloader'[1].outcome # None
                  /\ downloader'[1].outcome[1] \in 200..299
            /\ (downloader[1].pc = "requesting" /\ downloader'[1].pc = "idle"
                   /\ downloader'[1].outcome[1] \notin 200..299) =>
                  downloader'[1].last = downloader[1].last]_vars

\* C27 witness: two successful downloads exactly PDF_MIN_INTERVAL apart, then
\* a request answered 503 some time later, the timestamp still that of the
\* second download
C27_Witness ==
    /\ downloader # None
    /\ downloader[1].pc = "idle"
    /\ downloader[1].gap = Some(PDF_MIN_INTERVAL)
    /\ downloader[1].outcome = Some(503)
    /\ downloader[1].received # None
    /\ downloader[1].last = downloader[1].received[1]
    /\ downloader[1].clock > downloader[1].last

\* ---- _harvest_common: paging, checkpoints and the final save
MaxPages == 3
MaxRecords == 2
MaxLimit == 3
MaxInterval == 2

\* the slice that leaves out the paper at saved_count
unsaved_skipping(papers, saved_count) == SubSeq(papers, saved_count + 2, Len(papers))

\* papers[saved_count:]
unsaved(papers, saved_count) == SubSeq(papers, saved_count + 1, Len(papers))

\* save_batch, lines 62-70: every paper of the slice is passed to
\* db.insert_paper; count is the number of inserts that did not raise
save_batch(papers_to_save, failing) ==
    LET given == {papers_to_save[i] : i \in 1..Len(papers_to_save)}
    IN  [passed |-> given,
         stored |-> given \ failing,
         count |-> Cardinality({i \in 1..Len(papers_to_save) :
                                   papers_to_save[i] \notin failing})]

\* the inserts of a batch that raise: the first j of the batch, one choice for
\* each number of failures (only their number enters count)
FailingInserts(papers_to_save) ==
    {{papers_to_save[i] : i \in 1..j} : j \in 0..Len(papers_to_save)}

\* papers are numbered in the order the server delivers them; limit 0 stands
\* for None; resumption_token: whether the latest response carried one;
\* passed / stored: the papers handed to db.insert_paper / inserted by it;
\* error: whether the latest request or parse raised
InitHarvester ==
    /\ BatchIdle
    /\ selector = None /\ vlm = None /\ locator = None
    /\ transcoder = None /\ ledger_file = None /\ recogniser = None
    /\ downloader = None /\ syncer = None
    /\ \E db \in BOOLEAN, limit \in 0..MaxLimit, checkpoint_interval \in 1..MaxInterval :
         harvester = Some([pc |-> "loop", db |-> db, limit |-> limit,
                           checkpoint_interval |-> checkpoint_interval,
                           papers |-> <<>>, saved_count |-> 0,
                           resumption_token |-> FALSE, passed |-> {}, stored |-> {},
                           pages |-> 0, delivered |-> 0, error |-> FALSE])

\* one pass of the loop whose request and parse succeed, lines 73-93
harvest_Page ==
    /\ harvester # None
    /\ harvester[1].pc = "loop"
    /\ harvester[1].pages < MaxPages
    /\ \E k \in 0..MaxRecords, token \in BOOLEAN :
         LET h == harvester[1]
             records == [i \in 1..k |-> h.delivered + i]
             papers1 == h.papers \o records
             checkpoint == h.db /\ Len(papers1) - h.saved_count >= h.checkpoint_interval
             slice == unsaved(papers1, h.saved_count)
             truncate == h.limit # 0 /\ Len(papers1) >= h.limit
         IN  \E failing \in FailingInserts(IF checkpoint THEN slice ELSE <<>>) :
             LET batch == save_batch(slice, failing)
             IN  harvester' = Some([h EXCEPT
                    !.pages = @ + 1,
                    !.delivered = @ + k,
                    !.error = FALSE,
                    !.resumption_token = token,
                    !.saved_count = IF checkpoint THEN @ + batch.count ELSE @,
                    !.passed = IF checkpoint THEN @ \cup batch.passed ELSE @,
                    !.stored = IF checkpoint THEN @ \cup batch.stored ELSE @,
                    !.papers = IF truncate THEN SubSeq(papers1, 1, h.limit) ELSE papers1,
                    !.pc = IF truncate \/ ~token THEN "after" ELSE "loop"])
    /\ UNCHANGED exceptHarvester

\* the request, raise_for_status or the parse raises, lines 95-101
harvest_FetchError ==
    /\ harvester # None
    /\ harvester[1].pc = "loop"
    /\ LET h == harvester[1]
           save == h.db /\ h.saved_count < Len(h.papers)
           slice == unsaved(h.papers, h.saved_count)
       IN  \E failing \in FailingInserts(IF save THEN slice ELSE <<>>) :
             LET batch == save_batch(slice, failing)
             IN  harvester' = Some([h EXCEPT
                    !.error = TRUE,
                    !.saved_count = IF save THEN @ + batch.count ELSE @,
                    !.passed = IF save THEN @ \cup batch.passed ELSE @,
                    !.stored = IF save THEN @ \cup batch.stored ELSE @,
                    !.pc = "after"])
    /\ UNCHANGED exceptHarvester

\* the final save and the return, lines 103-111
harvest_Return ==
    /\ harvester # None
    /\ harvester[1].pc = "after"
    /\ LET h == harvester[1]
           save == h.db /\ h.saved_count < Len(h.papers)
           slice == unsaved(h.papers, h.saved_count)
       IN  \E failing \in FailingInserts(IF save THEN slice ELSE <<>>) :
             LET batch == save_batch(slice, failing)
             IN  harvester' = Some([h EXCEPT
                    !.saved_count = IF save THEN @ + batch.count ELSE @,
                    !.passed = IF save THEN @ \cup batch.passed ELSE @,
                    !.stored = IF save THEN @ \cup batch.stored ELSE @,
                    !.pc = "returned"])
    /\ UNCHANGED exceptHarvester

NextHarvester ==
    \/ harvest_Page
    \/ harvest_FetchError
    \/ harvest_Return

SpecHarvester == InitHarvester /\ [][NextHarvester]_vars

\* C28: when _harvest_common was given a database and has returned, every
\* paper of the returned list has been passed to db.insert_paper; and a pass
\* of the loop is followed by another exactly if its request succeeded, the
\* response carried a resumption token and the limit is not reached.
C28_HarvestCheckpointing ==
    /\ []((harvester # None /\ harvester[1].pc = "returned" /\ harvester[1].db) =>
            \A i \in 1..Len(harvester[1].papers) :
                harvester[1].papers[i] \in harvester[1].passed)
    /\ [][(harvester # None /\ harvester' # None /\ harvester[1].pc = "loop") =>
            (harvester'[1].pc = "loop" <=>
                /\ ~harvester'[1].error
                /\ harvester'[1].resumption_token
                /\ ~(harvester[1].limit # 0
                       /\ Len(harvester[1].papers) + (harvester'[1].delivered
                            - harvester[1].delivered) >= harvester[1].limit))]_vars

\* C28 witness: a checkpoint insert failed, so saved_count fell behind, the
\* list was cut to the limit, and the call returned with every returned paper
\* passed to the database and one more paper stored than returned
C28_Witness ==
    /\ harvester # None
    /\ harvester[1].pc = "returned"
    /\ harvester[1].db
    /\ harvester[1].limit = 3
    /\ Len(harvester[1].papers) = 3
    /\ harvester[1].saved_count < 3
    /\ 4 \in harvester[1].stored
    /\ 1 \notin harvester[1].stored

\* ---- sync_r2_to_d1_figures: the bucket scanned, the catalog queried, upserts
MaxObjects == 2
MaxRows == 1
MaxRuns == 2

\* object keys as sequences of string pieces: paper ids a and a-b, file names
\* c and b-c with the suffixes .webp and _thumb.webp, and keys the parser rejects
BucketKeys ==
    {<<"figures", "/">> \o p \o <<"/">> \o n \o s :
        p \in {<<"a">>, <<"a", "-", "b">>},
        n \in {<<"c">>, <<"b", "-", "c">>},
        s \in {<<".webp">>, <<"_thumb", ".webp">>}}
    \cup {<<"figures", "/", "a", "/", "c", ".png">>, <<"figures", "/", "c", ".webp">>}

\* parse_figure_key, lines 17-26: None, or (paper_id, kind, is_thumb)
parse_figure_key(key) ==
    LET slashes == {i \in 1..Len(key) : key[i] = "/"}
        startswith == Len(key) >= 2 /\ SubSeq(key, 1, 2) = <<"figures", "/">>
    IN  IF ~startswith \/ Cardinality(slashes) # 2
        THEN None
        ELSE LET first == CHOOSE i \in slashes : \A j \in slashes : i <= j
                 second == CHOOSE i \in slashes : \A j \in slashes : i >= j
                 paper == SubSeq(key, first + 1, second - 1)
                 filename == SubSeq(key, second + 1, Len(key))
                 n == Len(filename)
             IN  IF n >= 2 /\ SubSeq(filename, n - 1, n) = <<"_thumb", ".webp">>
                 THEN Some([paper_id |-> paper, kind |-> SubSeq(filename, 1, n - 2),
                            is_thumb |-> TRUE])
                 ELSE IF n >= 1 /\ filename[n] = ".webp"
                 THEN Some([paper_id |-> paper, kind |-> SubSeq(filename, 1, n - 1),
                            is_thumb |-> FALSE])
                 ELSE None

\* f"{paper_id}-{kind}", lines 109 and 158
figure_id(paper, kind) == paper \o <<"-">> \o kind

\* the orders in which the paginator may deliver the objects of the bucket
Listings(bucket) ==
    {l \in [1..Cardinality(bucket) -> bucket] :
        \A i, j \in 1..Cardinality(bucket) : l[i] = l[j] => i = j}

\* scan_r2, lines 41-59: the dict in insertion order, one entry per
\* (paper_id, kind)
RECURSIVE scan_r2(_)
scan_r2(listing) ==
    IF listing = <<>> THEN <<>>
    ELSE LET n == Len(listing)
             figures_ == scan_r2(SubSeq(listing, 1, n - 1))
             parsed == parse_figure_key(listing[n])
         IN  IF parsed = None THEN figures_
             ELSE LET p == parsed[1]
                      at == {i \in 1..Len(figures_) :
                                figures_[i].paper_id = p.paper_id /\ figures_[i].kind = p.kind}
                      entry == IF at = {}
                               THEN [paper_id |-> p.paper_id, kind |-> p.kind,
                                     r2_key |-> None, thumb_key |-> None]
                               ELSE figures_[CHOOSE i \in at : TRUE]
                      filled == IF p.is_thumb
                                THEN [entry EXCEPT !.thumb_key = Some(listing[n])]
                                ELSE [entry EXCEPT !.r2_key = Some(listing[n])]
                  IN  IF at = {} THEN Append(figures_, filled)
                      ELSE [figures_ EXCEPT ![CHOOSE i \in at : TRUE] = filled]

\* rows the catalog may hold before the first run: the key the extractor
\* wrote or a stale one, with or without a thumbnail key
CatalogRows ==
    {[paper_id |-> p, kind |-> n, r2_key |-> r, thumb_key |-> t,
      width |-> 640, height |-> 480] :
        p \in {<<"a">>, <<"a", "-", "b">>},
        n \in {<<"c">>, <<"b", "-", "c">>},
        r \in {<<"stale">>},
        t \in {None, Some(<<"stale_thumb">>)}}
    \cup {[paper_id |-> p, kind |-> n,
           r2_key |-> <<"figures", "/">> \o p \o <<"/">> \o n \o <<".webp">>,
           thumb_key |-> t, width |-> 640, height |-> 480] :
        p \in {<<"a">>, <<"a", "-", "b">>},
        n \in {<<"c">>, <<"b", "-", "c">>},
        t \in {None, Some(<<"stale_thumb">>)}}

FigureIds == {figure_id(r.paper_id, r.kind) : r \in CatalogRows}

\* the figures table, id TEXT PRIMARY KEY: None or the row of each id
Catalogs ==
    {[id \in FigureIds |-> IF \E r \in rows : figure_id(r.paper_id, r.kind) = id
                            THEN Some(CHOOSE r \in rows : figure_id(r.paper_id, r.kind) = id)
                            ELSE None] :
        rows \in {rs \in SUBSET CatalogRows :
                    /\ Cardinality(rs) <= MaxRows
                    /\ \A r, q \in rs :
                         figure_id(r.paper_id, r.kind) = figure_id(q.paper_id, q.kind)
                            => r = q}}

\* get_existing_figures_d1, lines 62-91: the rows by id, or nothing when the
\* query failed
get_existing_figures_d1(catalog, ok) ==
    IF ok THEN catalog ELSE [id \in FigureIds |-> None]

\* main, lines 150-177: the insert and the update list
main_lists(figures_, existing) ==
    LET op(f) == [paper_id |-> f.paper_id, kind |-> f.kind, r2_key |-> f.r2_key[1],
                  thumb_key |-> f.thumb_key]
        ops(fs) == [i \in 1..Len(fs) |-> op(fs[i])]
        row(f) == existing[figure_id(f.paper_id, f.kind)]
    IN  [to_insert |-> ops(SelectSeq(figures_,
                         LAMBDA f : f.r2_key # None /\ row(f) = None)),
         to_update |-> ops(SelectSeq(figures_,
                         LAMBDA f : /\ f.r2_key # None
                                    /\ row(f) # None
                                    /\ \/ row(f)[1].r2_key # f.r2_key[1]
                                       \/ row(f)[1].thumb_key = None /\ f.thumb_key # None))]

\* the statement of lines 113-117 on the table
upsert(catalog, op) ==
    LET id == figure_id(op.paper_id, op.kind)
    IN  [catalog EXCEPT ![id] =
            IF @ = None
            THEN Some([paper_id |-> op.paper_id, kind |-> op.kind, r2_key |-> op.r2_key,
                       thumb_key |-> op.thumb_key, width |-> 0, height |-> 0])
            ELSE Some([@[1] EXCEPT !.r2_key = op.r2_key,
                                   !.thumb_key = IF op.thumb_key # None THEN op.thumb_key
                                                 ELSE @])]

\* batch_insert_d1, lines 102-130: the statements executed in list order
RECURSIVE batch_insert_d1(_, _)
batch_insert_d1(catalog, all_ops) ==
    IF all_ops = <<>> THEN catalog
    ELSE upsert(batch_insert_d1(catalog, SubSeq(all_ops, 1, Len(all_ops) - 1)),
                all_ops[Len(all_ops)])

\* run: the number of the run; queried: its catalog query succeeded; wrote: it
\* sent statements to the catalog; upserted: every statement it sent was
\* executed; prev_upserted: the same of the run before (FALSE in the first run)
InitSyncer ==
    /\ BatchIdle
    /\ selector = None /\ vlm = None /\ locator = None
    /\ transcoder = None /\ ledger_file = None /\ recogniser = None
    /\ downloader = None /\ harvester = None
    /\ \E bucket \in {b \in SUBSET BucketKeys : Cardinality(b) <= MaxObjects},
          catalog \in Catalogs :
         syncer = Some([pc |-> "start", run |-> 1, bucket |-> bucket, catalog |-> catalog,
                        to_insert |-> <<>>, to_update |-> <<>>, queried |-> FALSE,
                        wrote |-> FALSE, upserted |-> TRUE, prev_upserted |-> FALSE])

\* main, lines 145-181: scan, query, lists, and the return when both are empty
sync_main_Lists ==
    /\ syncer # None
    /\ syncer[1].pc = "start"
    /\ \E listing \in Listings(syncer[1].bucket), ok \in BOOLEAN :
         LET lists == main_lists(scan_r2(listing),
                                 get_existing_figures_d1(syncer[1].catalog, ok))
         IN  syncer' = Some([syncer[1] EXCEPT
                !.queried = ok,
                !.to_insert = lists.to_insert,
                !.to_update = lists.to_update,
                !.pc = IF lists.to_insert = <<>> /\ lists.to_update = <<>>
                       THEN "done" ELSE "write"])
    /\ UNCHANGED exceptSyncer

\* main, line 189: batch_insert_d1; wrangler executes every statement, or
\* stops with an error after some of them
sync_main_Write ==
    /\ syncer # None
    /\ syncer[1].pc = "write"
    /\ LET all_ops == syncer[1].to_insert \o syncer[1].to_update
       IN  \E n \in 0..Len(all_ops) :
             syncer' = Some([syncer[1] EXCEPT
                !.catalog = batch_insert_d1(@, SubSeq(all_ops, 1, n)),
                !.wrote = TRUE,
                !.upserted = n = Len(all_ops),
                !.pc = "done"])
    /\ UNCHANGED exceptSyncer

\* the script is run again over the same bucket
sync_main_Again ==
    /\ syncer # None
    /\ syncer[1].pc = "done"
    /\ syncer[1].run < MaxRuns
    /\ syncer' = Some([syncer[1] EXCEPT
            !.pc = "start", !.run = @ + 1, !.to_insert = <<>>, !.to_update = <<>>,
            !.queried = FALSE, !.wrote = FALSE, !.upserted = TRUE,
            !.prev_upserted = syncer[1].upserted])
    /\ UNCHANGED exceptSyncer

NextSyncer ==
    \/ sync_main_Lists
    \/ sync_main_Write
    \/ sync_main_Again

SpecSyncer == InitSyncer /\ [][NextSyncer]_vars

\* C29: a run of the sync that follows a run whose upserts were all executed,
\* and whose own catalog query succeeded, computes empty insert and update
\* lists and sends nothing to the catalog; and no step changes the width or
\* height of an existing row or replaces its thumb_key by NULL.
C29_SyncIdempotence ==
    /\ []((/\ syncer # None
           /\ syncer[1].prev_upserted
           /\ syncer[1].queried
           /\ syncer[1].pc \in {"write", "done"}) =>
            /\ syncer[1].to_insert = <<>>
            /\ syncer[1].to_update = <<>>
            /\ ~syncer[1].wrote)
    /\ [][(syncer # None /\ syncer' # None) =>
            \A id \in FigureIds :
                syncer[1].catalog[id] # None =>
                    /\ syncer'[1].catalog[id] # None
                    /\ syncer'[1].catalog[id][1].width = syncer[1].catalog[id][1].width
                    /\ syncer'[1].catalog[id][1].height = syncer[1].catalog[id][1].height
                    /\ syncer[1].catalog[id][1].thumb_key # None =>
                          syncer'[1].catalog[id][1].thumb_key # None]_vars

====
